---------------------------- MODULE Spec2Model ----------------------------
(***************************************************************************)
(* A model of src/advanced_graph_builder.py: AdvancedGraphBuilder, the     *)
(* multi-document knowledge graph builder, and main(), which drives it.    *)
(*                                                                         *)
(* Python str values are TLC strings; Head, Tail, SubSeq, Len and \o work  *)
(* on them character by character.  An insertion-ordered dict (nodes,      *)
(* documents) is a sequence of records with unique "id" fields.            *)
(***************************************************************************)
EXTENDS Integers, Sequences, FiniteSets, TLC

(***************************************************************************)
(* Bounds of the model.                                                    *)
(***************************************************************************)
\* The largest number of chunk files in an input directory tree.
MaxChunks == 3

(***************************************************************************)
(* Python str operations.                                                  *)
(***************************************************************************)
\* The characters of the model's strings, in code point order.
Ascii == "\t -./0123456789:ABCDEFGHIJKLMNOPQRSTUVWXYZ_abcdefghijklmnopqrstuvwxyz"
LowerAlpha == "abcdefghijklmnopqrstuvwxyz"
UpperAlpha == "ABCDEFGHIJKLMNOPQRSTUVWXYZ"
Digits == "0123456789"

CharAt(s, i) == SubSeq(s, i, i)
Chars(s) == { CharAt(s, i) : i \in 1..Len(s) }

\* ord(c), as the rank of c among the model's characters.
Ord == [c \in Chars(Ascii) |-> CHOOSE i \in 1..Len(Ascii) : CharAt(Ascii, i) = c]
IsSpace(c) == c \in {" ", "\t"}
IsDigit(c) == c \in Chars(Digits)

\* c.upper() and c.lower() for one character.
UpperOf == [c \in Chars(Ascii) |->
              IF c \in Chars(LowerAlpha)
              THEN CharAt(UpperAlpha, CHOOSE i \in 1..Len(LowerAlpha) : CharAt(LowerAlpha, i) = c)
              ELSE c]
LowerOf == [c \in Chars(Ascii) |->
              IF c \in Chars(UpperAlpha)
              THEN CharAt(LowerAlpha, CHOOSE i \in 1..Len(LowerAlpha) : CharAt(UpperAlpha, i) = c)
              ELSE c]
UpperChar(c) == UpperOf[c]
LowerChar(c) == LowerOf[c]

RECURSIVE Upper(_)
Upper(s) == IF s = "" THEN "" ELSE UpperChar(Head(s)) \o Upper(Tail(s))

RECURSIVE Lower(_)
Lower(s) == IF s = "" THEN "" ELSE LowerChar(Head(s)) \o Lower(Tail(s))

\* s.replace(old, new) for a one-character old.
RECURSIVE Replace(_, _, _)
Replace(s, old, new) ==
  IF s = "" THEN ""
  ELSE (IF Head(s) = old THEN new ELSE Head(s)) \o Replace(Tail(s), old, new)

\* needle in hay (the empty string is in every string).
Contains(hay, needle) ==
  \E i \in 0..(Len(hay) - Len(needle)) : SubSeq(hay, i + 1, i + Len(needle)) = needle

\* s.strip()
RECURSIVE LStrip(_)
LStrip(s) == IF s # "" /\ IsSpace(Head(s)) THEN LStrip(Tail(s)) ELSE s
RECURSIVE RStrip(_)
RStrip(s) ==
  IF s # "" /\ IsSpace(CharAt(s, Len(s))) THEN RStrip(SubSeq(s, 1, Len(s) - 1)) ELSE s
Strip(s) == RStrip(LStrip(s))

\* The end of the longest run of characters of class C that starts at p.
RECURSIVE RunEnd(_, _, _)
RunEnd(s, p, C) == IF p <= Len(s) /\ CharAt(s, p) \in C THEN RunEnd(s, p + 1, C) ELSE p

\* set(s.split()): the maximal runs of non-whitespace characters of s.
RECURSIVE WordsFrom(_, _)
WordsFrom(s, p) ==
  LET start == RunEnd(s, p, {" ", "\t"})
      end == RunEnd(s, start, Chars(Ascii) \ {" ", "\t"})
  IN IF start > Len(s) THEN {}
     ELSE {SubSeq(s, start, end - 1)} \cup WordsFrom(s, end)
Words(s) == WordsFrom(s, 1)

\* sep.join(parts)
RECURSIVE Join(_, _)
Join(sep, parts) ==
  IF parts = <<>> THEN ""
  ELSE IF Len(parts) = 1 THEN parts[1]
  ELSE parts[1] \o sep \o Join(sep, Tail(parts))

\* str(n) for a small natural number n.
RECURSIVE ToStr(_)
ToStr(n) == IF n < 10 THEN CharAt(Digits, n + 1) ELSE ToStr(n \div 10) \o CharAt(Digits, (n % 10) + 1)

\* a < b in Python's str order (code points, a proper prefix first).
RECURSIVE StrLess(_, _)
StrLess(a, b) ==
  IF b = "" THEN FALSE
  ELSE IF a = "" THEN TRUE
  ELSE IF Head(a) = Head(b) THEN StrLess(Tail(a), Tail(b))
  ELSE Ord[Head(a)] < Ord[Head(b)]

\* sorted(paths) for the entries of one directory: Path objects compare by
\* their path strings, which differ in the last component (name) only.
RECURSIVE InsertSorted(_, _)
InsertSorted(x, s) ==
  IF s = <<>> THEN <<x>>
  ELSE IF StrLess(x.name, Head(s).name) THEN <<x>> \o s
  ELSE <<Head(s)>> \o InsertSorted(x, Tail(s))
\* The paths in listing order, not sorted.
ListingOrder(s) == s
RECURSIVE sorted(_)
sorted(s) == IF s = <<>> THEN <<>> ELSE InsertSorted(Head(s), sorted(Tail(s)))

\* Every order in which the elements of set S can be listed.
RECURSIVE Orders(_)
Orders(S) ==
  IF S = {} THEN { <<>> }
  ELSE UNION { { <<x>> \o o : o \in Orders(S \ {x}) } : x \in S }

Range(s) == { s[i] : i \in 1..Len(s) }

\* Python's None, kept apart from every str.
None == "<None>"
\* bool(x) for x a str or None.
Truthy(x) == x # None /\ x # ""

(***************************************************************************)
(* Insertion-ordered dict: d[key] = value replaces the value at the key's  *)
(* place when the key is there and appends it otherwise.                   *)
(***************************************************************************)
Keys(d) == { d[i].id : i \in 1..Len(d) }
DictPut(d, entry) ==
  IF entry.id \in Keys(d)
  THEN [i \in 1..Len(d) |-> IF d[i].id = entry.id THEN entry ELSE d[i]]
  ELSE Append(d, entry)
DictGet(d, key) == d[CHOOSE i \in 1..Len(d) : d[i].id = key]


(***************************************************************************)
(* The input: a root directory "chunks" with one subdirectory per          *)
(* document, each holding one JSON file per chunk.  A chunk record has     *)
(* the fields the builder reads: document_id, chunk_id, parent_id,         *)
(* content (a list of text fragments) and requirements (a list of records  *)
(* with text and keyword).  A file that cannot be read or parsed is Bad.   *)
(***************************************************************************)
Chunk(document_id, chunk_id, parent_id, content, requirements) ==
  [ok |-> TRUE,
   json |-> [document_id |-> document_id, chunk_id |-> chunk_id,
             parent_id |-> parent_id, content |-> content,
             requirements |-> requirements]]
Bad == [ok |-> FALSE]
Req(keyword, text) == [keyword |-> keyword, text |-> text]

FileName(k) == "c" \o ToStr(k) \o ".json"
\* A directory holding the given file bodies under the names c1.json, c2.json, ...
Dir(name, bodies) ==
  [name |-> name, is_dir |-> TRUE,
   files |-> { [name |-> FileName(k), body |-> bodies[k]] : k \in 1..Len(bodies) }]
\* A plain file beside the document directories.
Stray(name) == [name |-> name, is_dir |-> FALSE, files |-> {}]

\* Families of inputs.  Each names two document directories and, per
\* directory d, the file bodies its files are drawn from.
HierarchyFamily ==
  [d1 |-> "EN_50173", d2 |-> "EN_50174-2",
   pool |-> [d \in {"EN_50173", "EN_50174-2"} |->
     { Chunk(d, "1", None, <<>>, <<>>),
       Chunk(d, "1.1", "1", <<>>, <<>>),
       Chunk(d, "1", "1", <<>>, <<>>),
       Chunk(d, "1", "1.1", <<>>, <<>>),
       Chunk("EN_50174-2", "1.1", "1", <<>>, <<>>) }]]

IdFamily ==
  [d1 |-> "EN_50173", d2 |-> "EN_50174-2",
   pool |-> [d \in {"EN_50173", "EN_50174-2"} |->
     { Chunk(d, "1.1", None, <<"General">>, <<Req("shall", "The cabling shall be installed")>>),
       Chunk(d, "1_1", "", <<"Scope">>, <<Req("SHOULD", "It SHOULD be tested"), Req("may", "It may be reused")>>),
       Chunk("EN 50173", "1.1", None, <<"Terms">>, <<Req("whatever", "Whatever applies")>>),
       Chunk("EN/50173", "1.1", "1_1", <<>>, <<Req("Must", "It Must hold"), Req("", ""), Req("can", "It can vary")>>) }]]

TextFamily ==
  [d1 |-> "EN_50173", d2 |-> "EN_50174-2",
   pool |-> [d \in {"EN_50173", "EN_50174-2"} |->
     { Chunk(d, "1", None, <<"the cabling shall be installed">>, <<>>),
       Chunk(d, "2", None, <<"Cabling  installed">>, <<>>),
       Chunk(d, "3", None, <<"cabling">>, <<>>),
       Chunk(d, "4", None, <<>>, <<>>),
       Chunk(d, "5", None, <<"The", "of">>, <<>>) }]]

ScenarioFamily ==
  [d1 |-> "EN_50173", d2 |-> "EN_50174-2",
   pool |-> [d \in {"EN_50173", "EN_50174-2"} |->
     { Chunk(d, "4.2", None, <<"see EN 50174-2 for cabling">>, <<>>),
       Chunk(d, "5", None, <<"Installation planning">>, <<>>),
       Bad }]]

CitationFamily ==
  [d1 |-> "EN", d2 |-> "ISO",
   pool |-> [d \in {"EN", "ISO"} |->
     { Chunk(d, "2", None, <<"BS EN 50174-2 and en 50174-2">>, <<>>),
       Chunk(d, "3", None, <<"ISO 9001 or EN 1">>, <<>>),
       Chunk(d, "4", None, <<"EN 1", "EN 1:2000">>, <<>>) }]]

\* A directory whose Standard node id is also the Clause node id of a chunk
\* that names another document, and whose name holds a citation.
CollisionFamily ==
  [d1 |-> "CLAUSE_EN\t1", d2 |-> "ISO",
   pool |-> [d \in {"CLAUSE_EN\t1", "ISO"} |->
     { Chunk("STANDARD", "EN\t1", None, <<"see EN\t1">>, <<>>),
       Chunk(d, "1", None, <<"cabling">>, <<>>) }]]

Families == {HierarchyFamily, IdFamily, TextFamily, ScenarioFamily, CitationFamily,
             CollisionFamily}

\* The sequences of n elements of S.
Lists(S, n) == [1..n -> S]

\* The root directories of family f: its two document directories with at
\* most MaxChunks files between them, and a plain file beside them.
Roots(f) ==
  { {Dir(f.d1, a), Dir(f.d2, b), Stray("README.md")} :
      <<a, b>> \in UNION { Lists(f.pool[f.d1], i) \X Lists(f.pool[f.d2], j) :
                            <<i, j>> \in { p \in (0..MaxChunks) \X (0..MaxChunks) :
                                            p[1] + p[2] <= MaxChunks } } }
Inputs == UNION { Roots(f) : f \in Families }

(***************************************************************************)
(* The state: the builder's fields (__init__, lines 30-37), the input and  *)
(* output directories, and main's position.                                *)
(***************************************************************************)
VARIABLES
  pc,                \* main's position
  chunks_dir,        \* the input directory "chunks": a set of entries
  output,            \* the files written under "output": name -> content
  nodes,             \* self.nodes: node id -> node, in insertion order
  edges,             \* self.edges: (source, target, relationship) triples
  all_chunks,        \* self.all_chunks
  documents,         \* self.documents: document id -> chunks, in insertion order
  verification_log,  \* self.verification_log
  similarity_threshold,  \* detect_semantic_similarities' arguments
  max_links

vars == <<pc, chunks_dir, output, nodes, edges, all_chunks, documents,
          verification_log, similarity_threshold, max_links>>

\* self.log(message, level): the entry without its wall-clock timestamp.
Log(log, level, message) == Append(log, [level |-> level, message |-> message])
Info(log, message) == Log(log, "INFO", message)

Init ==
  /\ pc = "main"
  /\ chunks_dir \in Inputs
  /\ output = <<>>
  /\ nodes = <<>>
  /\ edges = <<>>
  /\ all_chunks = <<>>
  /\ documents = <<>>
  /\ verification_log = <<>>
  /\ similarity_threshold = None
  /\ max_links = None

(***************************************************************************)
(* load_all_documents (lines 57-87), entered from build_graph (378-388).   *)
(***************************************************************************)
\* chunk = json.load(f); chunk['_source_file'] = str(json_file)  (lines 76-77)
WithSourceFile(json, path) ==
  [document_id |-> json.document_id, chunk_id |-> json.chunk_id,
   parent_id |-> json.parent_id, content |-> json.content,
   requirements |-> json.requirements, _source_file |-> path]

\* for json_file in json_files (lines 73-81), on builder state b.
\* A loop that a failing file ends.
RECURSIVE LoadFilesUntilError(_, _, _)
LoadFilesUntilError(json_files, dir_path, b) ==
  IF json_files = <<>> THEN b
  ELSE LET json_file == Head(json_files)
           path == dir_path \o "/" \o json_file.name
       IN IF json_file.body.ok
          THEN LET chunk == WithSourceFile(json_file.body.json, path)
               IN LoadFilesUntilError(Tail(json_files), dir_path,
                    [b EXCEPT !.doc_chunks = Append(@, chunk),
                              !.all_chunks = Append(@, chunk)])
          ELSE [b EXCEPT !.log = Log(@, "ERROR", "Failed to load " \o path)]
RECURSIVE LoadFiles(_, _, _)
LoadFiles(json_files, dir_path, b) ==
  IF json_files = <<>> THEN b
  ELSE LET json_file == Head(json_files)
           path == dir_path \o "/" \o json_file.name
           next ==
             IF json_file.body.ok
             THEN LET chunk == WithSourceFile(json_file.body.json, path)
                  IN [b EXCEPT !.doc_chunks = Append(@, chunk),
                               !.all_chunks = Append(@, chunk)]
             ELSE [b EXCEPT !.log = Log(@, "ERROR", "Failed to load " \o path)]
       IN LoadFiles(Tail(json_files), dir_path, next)


\* sorted(chunks_base_dir.iterdir()) (line 63) and
\* sorted(doc_dir.glob("*.json")) (line 71): the directory is listed in an
\* order the file system chooses and the listing is sorted.  SortedListings
\* holds what sorted can return over every such order; ListingOrders(root)
\* holds every choice for the root's entries and, per entry, for its files.
SortedListings(S) == { sorted(o) : o \in Orders(S) }
RECURSIVE GlobOrders(_)
GlobOrders(entries) ==
  IF entries = {} THEN { <<>> }
  ELSE LET e == CHOOSE x \in entries : TRUE
       IN { (e.name :> o) @@ g : o \in SortedListings(e.files), g \in GlobOrders(entries \ {e}) }
ListingOrders(root) == [iterdir : SortedListings(root), glob : GlobOrders(root)]

\* for doc_dir in sorted(chunks_base_dir.iterdir()) (lines 63-84), given the
\* sorted listings of the root (doc_dirs) and of each directory (glob).
RECURSIVE LoadDirs(_, _, _, _)
LoadDirs(doc_dirs, base_path, glob, b) ==
  IF doc_dirs = <<>> THEN b
  ELSE LET doc_dir == Head(doc_dirs) IN
       IF ~doc_dir.is_dir THEN LoadDirs(Tail(doc_dirs), base_path, glob, b)
       ELSE LET document_id == doc_dir.name
                b1 == [b EXCEPT !.log = Info(@, "Loading: " \o document_id),
                                !.doc_chunks = <<>>]
                json_files == glob[doc_dir.name]
                b2 == LoadFiles(json_files, base_path \o "/" \o doc_dir.name, b1)
                b3 == [b2 EXCEPT
                        !.documents = DictPut(@, [id |-> document_id, chunks |-> b2.doc_chunks]),
                        !.log = Info(@, "Loaded " \o ToStr(Len(b2.doc_chunks))
                                        \o " chunks from " \o document_id)]
            IN LoadDirs(Tail(doc_dirs), base_path, glob, b3)

\* The builder after load_all_documents(Path("chunks")) under listing order l.
Loaded(l) ==
  LET b0 == [documents |-> documents, all_chunks |-> all_chunks, doc_chunks |-> <<>>,
             log |-> Info(Info(verification_log,
                               "ADVANCED MULTI-DOCUMENT KNOWLEDGE GRAPH BUILDER"),
                          "PHASE 1: LOADING ALL DOCUMENTS")]
      b1 == LoadDirs(l.iterdir, "chunks", l.glob, b0)
  IN [b1 EXCEPT !.log = Info(@, "LOADED " \o ToStr(Len(b1.all_chunks)) \o " total chunks from "
                                \o ToStr(Len(b1.documents)) \o " documents")]

\* if chunk_count == 0 (line 386).
AbortNever(chunk_count) == FALSE
NoChunksLoaded(chunk_count) == chunk_count = 0

\* build_graph up to its return on an empty load (lines 378-388): it loads
\* the documents and aborts when no chunk was loaded.
LoadAndTest ==
  /\ \E l \in ListingOrders(chunks_dir) :
       LET b == Loaded(l)
           chunk_count == Len(b.all_chunks)
       IN /\ documents' = b.documents
          /\ all_chunks' = b.all_chunks
          /\ IF NoChunksLoaded(chunk_count)
             THEN /\ verification_log' = Log(b.log, "ERROR", "No chunks loaded. Aborting.")
                  /\ pc' = "failed"
             ELSE /\ verification_log' = b.log
                  /\ pc' = "loaded"
  /\ UNCHANGED <<chunks_dir, output, nodes, edges, similarity_threshold, max_links>>

\* main calls build_graph on the builder it has made (lines 490-491).
load_all_documents ==
  /\ pc = "main"
  /\ LoadAndTest

(***************************************************************************)
(* Node creation.                                                          *)
(***************************************************************************)
\* generate_node_id (lines 51-55).
generate_node_id(document_id, chunk_id, node_type) ==
  LET doc == Replace(Replace(document_id, "/", "_"), " ", "_")
      chunk == Replace(chunk_id, ".", "_")
  IN doc \o "_" \o node_type \o "_" \o chunk

\* for document_id in self.documents.keys() (lines 95-105).
RECURSIVE StandardNodes(_, _)
StandardNodes(docs, b) ==
  IF docs = <<>> THEN b
  ELSE LET document_id == Head(docs).id
           node_id == "STANDARD_" \o document_id
           node == [id |-> node_id, type |-> "Standard", document_id |-> document_id,
                    label |-> Replace(document_id, "_", " ")]
       IN StandardNodes(Tail(docs),
            [b EXCEPT !.nodes = DictPut(@, node),
                      !.log = Info(@, "Created Standard: " \o node_id)])

\* build_standard_nodes (lines 89-105).
build_standard_nodes ==
  /\ pc = "loaded"
  /\ LET b == StandardNodes(documents,
                [nodes |-> nodes,
                 log |-> Info(verification_log, "PHASE 2: CREATING STANDARD NODES")])
     IN /\ nodes' = b.nodes
        /\ verification_log' = b.log
  /\ pc' = "standards"
  /\ UNCHANGED <<chunks_dir, output, edges, all_chunks, documents,
                 similarity_threshold, max_links>>

\* The Clause node of the idx-th chunk (lines 114-142).  text_hash is a
\* function of full_text and is left out; text is its first 500 characters.
ClauseNode(chunk, idx) ==
  LET full_text == Join(" ", chunk.content)
  IN [id |-> generate_node_id(chunk.document_id, chunk.chunk_id, "CLAUSE"),
      type |-> "Clause",
      clause_id |-> chunk.chunk_id,
      document_id |-> chunk.document_id,
      parent_id |-> chunk.parent_id,
      text |-> SubSeq(full_text, 1, IF Len(full_text) < 500 THEN Len(full_text) ELSE 500),
      full_text |-> full_text,
      source_file |-> chunk._source_file,
      chunk_index |-> idx]

\* for idx, chunk in enumerate(self.all_chunks, 1) (lines 113-147).
RECURSIVE ClauseNodes(_, _, _)
ClauseNodes(chunks, idx, b) ==
  IF idx > Len(chunks) THEN b
  ELSE ClauseNodes(chunks, idx + 1,
         [b EXCEPT !.nodes = DictPut(@, ClauseNode(chunks[idx], idx)),
                   !.log = IF idx % 50 = 0
                           THEN Info(@, "Created " \o ToStr(idx) \o " clauses...")
                           ELSE @])

\* build_clause_nodes (lines 107-149).
build_clause_nodes ==
  /\ pc = "standards"
  /\ LET b == ClauseNodes(all_chunks, 1,
                [nodes |-> nodes,
                 log |-> Info(verification_log, "PHASE 3: CREATING CLAUSE NODES ("
                                \o ToStr(Len(all_chunks)) \o " chunks)")])
     IN /\ nodes' = b.nodes
        /\ verification_log' = Info(b.log, "Created " \o ToStr(Len(all_chunks)) \o " CLAUSE nodes")
  /\ pc' = "clauses"
  /\ UNCHANGED <<chunks_dir, output, edges, all_chunks, documents,
                 similarity_threshold, max_links>>

\* _get_obligation_level (lines 197-206).
ObligationLevelCaseSensitive(keyword) ==
  CASE keyword \in {"shall", "must"} -> "MANDATORY"
    [] keyword = "should" -> "RECOMMENDED"
    [] keyword \in {"may", "can"} -> "OPTIONAL"
    [] OTHER -> "UNKNOWN"
_get_obligation_level(keyword) ==
  LET k == Lower(keyword)
  IN CASE k \in {"shall", "must"} -> "MANDATORY"
       [] k = "should" -> "RECOMMENDED"
       [] k \in {"may", "can"} -> "OPTIONAL"
       [] OTHER -> "UNKNOWN"

\* f"{req_idx:02d}"
TwoDigits(n) == IF n < 10 THEN "0" \o ToStr(n) ELSE ToStr(n)

\* The Requirement node of the req_idx-th requirement of chunk (lines 168-190).
RequirementNode(chunk, req, req_idx) ==
  [id |-> generate_node_id(chunk.document_id,
                           chunk.chunk_id \o "_REQ" \o TwoDigits(req_idx), "REQ"),
   type |-> "Requirement",
   keyword |-> req.keyword,
   text |-> req.text,
   parent_clause |-> chunk.chunk_id,
   document_id |-> chunk.document_id,
   obligation_level |-> _get_obligation_level(req.keyword)]

\* for req_idx, req in enumerate(requirements, 1) (lines 167-193).
RECURSIVE ChunkRequirements(_, _, _)
ChunkRequirements(chunk, req_idx, b) ==
  IF req_idx > Len(chunk.requirements) THEN b
  ELSE ChunkRequirements(chunk, req_idx + 1,
         [b EXCEPT !.nodes = DictPut(@, RequirementNode(chunk, chunk.requirements[req_idx], req_idx)),
                   !.req_count = @ + 1])

\* for chunk in self.all_chunks (lines 159-193).
RECURSIVE RequirementNodes(_, _)
RequirementNodes(chunks, b) ==
  IF chunks = <<>> THEN b
  ELSE RequirementNodes(Tail(chunks), ChunkRequirements(Head(chunks), 1, b))

\* build_requirement_nodes (lines 151-195).
build_requirement_nodes ==
  /\ pc = "clauses"
  /\ LET b == RequirementNodes(all_chunks, [nodes |-> nodes, req_count |-> 0])
     IN /\ nodes' = b.nodes
        /\ verification_log' =
             Info(Info(verification_log, "PHASE 4: EXTRACTING REQUIREMENT NODES"),
                  "Created " \o ToStr(b.req_count) \o " REQUIREMENT nodes")
  /\ pc' = "requirements"
  /\ UNCHANGED <<chunks_dir, output, edges, all_chunks, documents,
                 similarity_threshold, max_links>>

(***************************************************************************)
(* Structural edges.                                                       *)
(***************************************************************************)
\* _find_clause_node_by_id without the scan: the id the parent would have.
FindClauseUnchecked(ns, clause_id, document_id) ==
  generate_node_id(document_id, clause_id, "CLAUSE")

\* _find_clause_node_by_id without the document_id test.
FindClauseAnyDocument(ns, clause_id, document_id) ==
  LET hits == { i \in 1..Len(ns) : ns[i].type = "Clause" /\ ns[i].clause_id = clause_id }
  IN IF hits = {} THEN None
     ELSE ns[CHOOSE i \in hits : \A j \in hits : i <= j].id

\* _find_clause_node_by_id (lines 260-267): the first matching node, or None.
_find_clause_node_by_id(ns, clause_id, document_id) ==
  LET hits == { i \in 1..Len(ns) : /\ ns[i].type = "Clause"
                                   /\ ns[i].clause_id = clause_id
                                   /\ ns[i].document_id = document_id }
  IN IF hits = {} THEN None
     ELSE ns[CHOOSE i \in hits : \A j \in hits : i <= j].id

\* standard_nodes.get(document_id) that answers with the first Standard node.
StandardNodeFirst(ns, document_id) ==
  LET hits == { i \in 1..Len(ns) : ns[i].type = "Standard" }
  IN IF hits = {} THEN None
     ELSE ns[CHOOSE i \in hits : \A j \in hits : i <= j].id

\* standard_nodes.get(document_id) for the dict of lines 217-219, in which a
\* later Standard node of the same document_id replaces an earlier one.
StandardNodeOf(ns, document_id) ==
  LET hits == { i \in 1..Len(ns) : /\ ns[i].type = "Standard"
                                   /\ ns[i].document_id = document_id }
  IN IF hits = {} THEN None
     ELSE ns[CHOOSE i \in hits : \A j \in hits : i >= j].id

\* The edges that the first loop (lines 222-242) appends for one node.
ClauseEdges(ns, node) ==
  IF node.type # "Clause" THEN <<>>
  ELSE IF Truthy(node.parent_id)
       THEN LET parent_node_id == _find_clause_node_by_id(ns, node.parent_id, node.document_id)
            IN IF Truthy(parent_node_id)
               THEN << <<parent_node_id, node.id, "HAS_SUBCLAUSE">> >>
               ELSE <<>>
       ELSE LET standard_id == StandardNodeOf(ns, node.document_id)
            IN IF Truthy(standard_id)
               THEN << <<standard_id, node.id, "HAS_CLAUSE">> >>
               ELSE <<>>

\* The edges that the second loop (lines 245-256) appends for one node.
RequirementEdges(ns, node) ==
  IF node.type # "Requirement" THEN <<>>
  ELSE LET parent_node_id == _find_clause_node_by_id(ns, node.parent_clause, node.document_id)
       IN IF Truthy(parent_node_id)
          THEN << <<parent_node_id, node.id, "CONTAINS_REQUIREMENT">> >>
          ELSE <<>>

\* for node_id, node in self.nodes.items() (lines 222-242), from the i-th
\* node on.
RECURSIVE ClauseEdgeLoop(_, _, _)
ClauseEdgeLoop(ns, i, es) ==
  IF i > Len(ns) THEN es
  ELSE ClauseEdgeLoop(ns, i + 1, es \o ClauseEdges(ns, ns[i]))

\* for node_id, node in self.nodes.items() (lines 245-256), from the i-th
\* node on.
RECURSIVE RequirementEdgeLoop(_, _, _)
RequirementEdgeLoop(ns, i, es) ==
  IF i > Len(ns) THEN es
  ELSE RequirementEdgeLoop(ns, i + 1, es \o RequirementEdges(ns, ns[i]))

\* build_structural_edges (lines 208-258).
build_structural_edges ==
  /\ pc = "requirements"
  /\ LET es == RequirementEdgeLoop(nodes, 1, ClauseEdgeLoop(nodes, 1, edges))
     IN /\ edges' = es
        /\ verification_log' =
             Info(Info(verification_log, "PHASE 5: CREATING STRUCTURAL EDGES"),
                  "Created " \o ToStr(Len(es) - Len(edges)) \o " structural edges")
  /\ pc' = "structural"
  /\ UNCHANGED <<chunks_dir, output, nodes, all_chunks, documents,
                 similarity_threshold, max_links>>

(***************************************************************************)
(* Cross-document references.                                              *)
(***************************************************************************)
\* The citation patterns of lines 276-281.  Each is a sequence of literal
\* words, every word followed by \s+, and then \d+[-\d]* .
Patterns == << <<"EN">>, <<"BS", "EN">>, <<"IEC">>, <<"ISO">> >>

\* The position after the pattern's words matched at p (re.IGNORECASE), 0
\* when they do not match there.
RECURSIVE MatchWords(_, _, _)
MatchWords(s, p, words) ==
  IF words = <<>> THEN p
  ELSE LET q == p + Len(Head(words))
           r == RunEnd(s, q, {" ", "\t"})
       IN IF /\ q - 1 <= Len(s)
             /\ Upper(SubSeq(s, p, q - 1)) = Upper(Head(words))
             /\ r > q
          THEN MatchWords(s, r, Tail(words))
          ELSE 0

\* The position after the match of pattern at p, 0 when there is none.  The
\* quantifiers are greedy and no shorter run lets a failed match succeed.
MatchEnd(s, p, pattern) ==
  LET q == MatchWords(s, p, pattern)
      r == RunEnd(s, q, Chars(Digits))
  IN IF q = 0 \/ r = q THEN 0 ELSE RunEnd(s, r, Chars(Digits) \cup {"-"})

\* re.findall(pattern, s, re.IGNORECASE), scanning from position p.
RECURSIVE FindAll(_, _, _)
FindAll(pattern, s, p) ==
  IF p > Len(s) THEN <<>>
  ELSE LET e == MatchEnd(s, p, pattern)
       IN IF e = 0 THEN FindAll(pattern, s, p + 1)
          ELSE <<SubSeq(s, p, e - 1)>> \o FindAll(pattern, s, e)

\* refs after the loop of lines 290-293.
Refs(full_text) ==
  UNION { { Strip(m) : m \in Range(FindAll(Patterns[k], full_text, 1)) } :
          k \in 1..Len(Patterns) }

\* The test of lines 298-304 on a raw match and a document id.
RefMatchesDocument(ref, doc_id) ==
  LET ref_normalized == Upper(Replace(Replace(ref, " ", "_"), ":", ""))
      doc_normalized == Upper(Replace(doc_id, "_", ""))
  IN Contains(ref_normalized, doc_normalized) \/ Contains(doc_normalized, ref_normalized)

\* for doc_id in self.documents.keys() (lines 301-310), for one ref.
RECURSIVE RefEdges(_, _, _, _)
RefEdges(ns, node, ref, docs) ==
  IF docs = <<>> THEN <<>>
  ELSE LET doc_id == Head(docs).id
           standard_id == "STANDARD_" \o doc_id
       IN (IF RefMatchesDocument(ref, doc_id) /\ standard_id \in Keys(ns)
           THEN << <<node.id, standard_id, "REFERENCES">> >>
           ELSE <<>>)
          \o RefEdges(ns, node, ref, Tail(docs))

\* for ref in refs (lines 296-310), the refs taken in the given order.
RECURSIVE NodeRefEdges(_, _, _, _)
NodeRefEdges(ns, node, refs, docs) ==
  IF refs = <<>> THEN <<>>
  ELSE RefEdges(ns, node, Head(refs), docs) \o NodeRefEdges(ns, node, Tail(refs), docs)

\* clause_nodes (lines 284 and 320): the Clause nodes in registry order.
ClauseNodesOf(ns) == SelectSeq(ns, LAMBDA n : n.type = "Clause")

\* The matches that the loop of lines 291-293 hands to refs.update, pattern
\* by pattern from the k-th pattern on, each in the order re.findall lists it.
RECURSIVE MatchesFrom(_, _)
MatchesFrom(full_text, k) ==
  IF k > Len(Patterns) THEN <<>>
  ELSE FindAll(Patterns[k], full_text, 1) \o MatchesFrom(full_text, k + 1)

\* The loop of lines 286-310 over a list of matches in place of the set refs:
\* a match is resolved as often as it was found.
RECURSIVE ReferenceOutcomesOfEveryMatch(_, _, _)
ReferenceOutcomesOfEveryMatch(ns, clause_nodes, docs) ==
  IF clause_nodes = <<>> THEN { <<>> }
  ELSE LET node == Head(clause_nodes)
           found == MatchesFrom(node.full_text, 1)
       IN { NodeRefEdges(ns, node, [i \in 1..Len(found) |-> Strip(found[i])], docs) \o rest :
              rest \in ReferenceOutcomesOfEveryMatch(ns, Tail(clause_nodes), docs) }

\* for node in clause_nodes (lines 286-310): every edge sequence the loop can
\* append.  refs is a set of str, which Python iterates in an order that
\* depends on the process's string hashing; each order is an outcome.
RECURSIVE ReferenceOutcomes(_, _, _)
ReferenceOutcomes(ns, clause_nodes, docs) ==
  IF clause_nodes = <<>> THEN { <<>> }
  ELSE LET node == Head(clause_nodes)
       IN { NodeRefEdges(ns, node, order, docs) \o rest :
              order \in Orders(Refs(node.full_text)),
              rest \in ReferenceOutcomes(ns, Tail(clause_nodes), docs) }

\* detect_cross_references (lines 269-312).
detect_cross_references ==
  /\ pc = "structural"
  /\ \E refs \in ReferenceOutcomes(nodes, ClauseNodesOf(nodes), documents) :
       /\ edges' = edges \o refs
       /\ verification_log' =
            Info(Info(verification_log, "PHASE 6: DETECTING CROSS-DOCUMENT REFERENCES"),
                 "Created " \o ToStr(Len(refs)) \o " CROSS-REFERENCE edges")
  /\ pc' = "references"
  /\ UNCHANGED <<chunks_dir, output, nodes, all_chunks, documents,
                 similarity_threshold, max_links>>

(***************************************************************************)
(* Semantic similarities.                                                  *)
(***************************************************************************)
\* An exact fraction num/den with den > 0, for a float that the code only
\* compares: a / b >= t decides as the fractions do for the small counts and
\* the short decimal thresholds of the model.
Frac(num, den) == [num |-> num, den |-> den]
Geq(a, b) == a.num * b.den >= b.num * a.den

\* common_words (lines 363-365).
common_words ==
  {"the", "a", "an", "and", "or", "but", "in", "on", "at",
   "to", "for", "of", "with", "by", "from", "is", "are",
   "was", "were", "be", "been", "being", "have", "has", "had"}

\* _calculate_similarity (lines 356-376) without the lower() of lines 366-367.
SimilarityCaseSensitive(text1, text2) ==
  LET words1 == Words(text1) \ common_words
      words2 == Words(text2) \ common_words
      intersection == Cardinality(words1 \cap words2)
      union == Cardinality(words1 \cup words2)
  IN IF words1 = {} \/ words2 = {} THEN Frac(0, 1)
     ELSE IF union > 0 THEN Frac(intersection, union) ELSE Frac(0, 1)

\* _calculate_similarity (lines 356-376).
IntersectionOverFirst(text1, text2) ==
  LET words1 == Words(Lower(text1)) \ common_words
      words2 == Words(Lower(text2)) \ common_words
  IN IF words1 = {} \/ words2 = {} THEN Frac(0, 1)
     ELSE Frac(Cardinality(words1 \cap words2), Cardinality(words1))
_calculate_similarity(text1, text2) ==
  LET words1 == Words(Lower(text1)) \ common_words
      words2 == Words(Lower(text2)) \ common_words
      intersection == Cardinality(words1 \cap words2)
      union == Cardinality(words1 \cup words2)
  IN IF words1 = {} \/ words2 = {} THEN Frac(0, 1)
     ELSE IF union > 0 THEN Frac(intersection, union) ELSE Frac(0, 1)

\* node1['document_id'] == node2['document_id'] (line 331).
SameDocumentByNodeId(node1, node2) == node1.id = node2.id
SameDocument(node1, node2) == node1.document_id = node2.document_id

\* similarity >= similarity_threshold (line 343).
MeetsThresholdStrictly(similarity, threshold) == ~Geq(threshold, similarity)
MeetsThreshold(similarity, threshold) == Geq(similarity, threshold)

\* sim_count >= max_links, which leaves the inner loop (line 351).
InnerLimitOffByOne(sim_count, cap) == sim_count > cap
InnerLimitReached(sim_count, cap) == sim_count >= cap

\* sim_count >= max_links, which leaves the outer loop (line 326).
OuterLimitNeverReached(sim_count, cap) == FALSE
OuterLimitReached(sim_count, cap) == sim_count >= cap

\* not text1 or not text2 (line 338), which skips the pair.
TextNeverMissing(text1, text2) == FALSE
TextMissing(text1, text2) == text1 = "" \/ text2 = ""

\* for node2 in clause_nodes[i+1:] (lines 330-352), from the j-th node on.
RECURSIVE SimilarInner(_, _, _, _, _, _)
SimilarInner(cs, i, j, threshold, cap, b) ==
  IF j > Len(cs) THEN b
  ELSE LET node1 == cs[i]
           node2 == cs[j]
       IN IF SameDocument(node1, node2)
          THEN SimilarInner(cs, i, j + 1, threshold, cap, b)
          ELSE IF TextMissing(node1.full_text, node2.full_text)
          THEN SimilarInner(cs, i, j + 1, threshold, cap, b)
          ELSE IF MeetsThreshold(_calculate_similarity(node1.full_text, node2.full_text), threshold)
          THEN LET count == b.sim_count + 1
                   b1 == [edges |-> Append(b.edges, <<node1.id, node2.id, "SIMILAR_TO">>),
                          sim_count |-> count,
                          log |-> IF count % 10 = 0
                                  THEN Info(b.log, "Found " \o ToStr(count) \o " similar clause pairs...")
                                  ELSE b.log]
               IN IF InnerLimitReached(count, cap) THEN b1
                  ELSE SimilarInner(cs, i, j + 1, threshold, cap, b1)
          ELSE SimilarInner(cs, i, j + 1, threshold, cap, b)

\* for i, node1 in enumerate(clause_nodes) (lines 325-352).
RECURSIVE SimilarOuter(_, _, _, _, _)
SimilarOuter(cs, i, threshold, cap, b) ==
  IF i > Len(cs) THEN b
  ELSE IF OuterLimitReached(b.sim_count, cap) THEN b
  ELSE SimilarOuter(cs, i + 1, threshold, cap, SimilarInner(cs, i, i + 1, threshold, cap, b))

\* The arguments detect_semantic_similarities is called with: build_graph
\* passes 0.3 and 200 (line 406), other callers pass what they choose.
BuildGraphMaxLinks == 200
Thresholds == { Frac(0, 1), Frac(3, 10), Frac(1, 2) }
LinkCaps == { 0, 1, BuildGraphMaxLinks }

\* print_summary (lines 413-444): one entry per document, per node type and
\* per relationship that occurs, and the totals.
RECURSIVE DocumentLines(_, _)
DocumentLines(log, docs) ==
  IF docs = <<>> THEN log
  ELSE DocumentLines(Info(log, Head(docs).name \o ": " \o ToStr(Len(Head(docs).chunks)) \o " chunks"),
                     Tail(docs))
RECURSIVE NodeTypeLines(_, _, _)
NodeTypeLines(log, types, ns) ==
  IF types = <<>> THEN log
  ELSE LET count == Cardinality({ i \in 1..Len(ns) : ns[i].type = Head(types) })
       IN NodeTypeLines(IF count > 0
                        THEN Info(log, Head(types) \o ": " \o ToStr(count) \o " nodes")
                        ELSE log,
                        Tail(types), ns)
RECURSIVE EdgeTypeLines(_, _, _)
EdgeTypeLines(log, types, es) ==
  IF types = <<>> THEN log
  ELSE LET count == Cardinality({ i \in 1..Len(es) : es[i][3] = Head(types) })
       IN EdgeTypeLines(IF count > 0
                        THEN Info(log, Head(types) \o ": " \o ToStr(count) \o " edges")
                        ELSE log,
                        Tail(types), es)
Summary(log, docs, ns, es) ==
  LET l1 == DocumentLines(Info(Info(log, "ADVANCED GRAPH BUILD SUMMARY"), "DOCUMENT STATISTICS:"),
              sorted([i \in 1..Len(docs) |-> [name |-> docs[i].id, chunks |-> docs[i].chunks]]))
      l2 == NodeTypeLines(Info(l1, "NODE STATISTICS:"),
              <<"Clause", "Requirement", "Standard">>, ns)
      l3 == Info(l2, "TOTAL: " \o ToStr(Len(ns)) \o " nodes")
      l4 == EdgeTypeLines(Info(l3, "EDGE STATISTICS:"),
              <<"CONTAINS_REQUIREMENT", "HAS_CLAUSE", "HAS_SUBCLAUSE", "REFERENCES", "SIMILAR_TO">>,
              es)
  IN Info(l4, "TOTAL: " \o ToStr(Len(es)) \o " edges")

\* detect_semantic_similarities (lines 314-354), after which build_graph
\* prints the summary and returns True (lines 408-411).
detect_semantic_similarities ==
  /\ pc = "references"
  /\ \E threshold \in Thresholds, cap \in LinkCaps :
       LET cs == ClauseNodesOf(nodes)
           b0 == [edges |-> edges, sim_count |-> 0,
                  log |-> Info(Info(verification_log, "PHASE 7: DETECTING SEMANTIC SIMILARITIES"),
                               "Analyzing " \o ToStr(Len(cs)) \o " clauses for similarities...")]
           b == SimilarOuter(cs, 1, threshold, cap, b0)
       IN /\ similarity_threshold' = threshold
          /\ max_links' = cap
          /\ edges' = b.edges
          /\ verification_log' =
               Summary(Info(b.log, "Created " \o ToStr(b.sim_count) \o " SIMILARITY edges"),
                       documents, nodes, b.edges)
  /\ pc' = "built"
  /\ UNCHANGED <<chunks_dir, output, nodes, all_chunks, documents>>

(***************************************************************************)
(* Export, which main runs when build_graph returned True (lines 493-499). *)
(***************************************************************************)
\* graph_data (lines 450-464), without its wall-clock created_at.
GraphData ==
  [metadata |-> [node_count |-> Len(nodes),
                 edge_count |-> Len(edges),
                 document_count |-> Len(documents),
                 chunk_count |-> Len(all_chunks)],
   documents |-> [i \in 1..Len(documents) |-> documents[i].id],
   nodes |-> nodes,
   edges |-> [i \in 1..Len(edges) |->
                [source |-> edges[i][1], target |-> edges[i][2], relationship |-> edges[i][3]]]]

\* if success (line 493): build_graph returned True.
SuccessIgnored == pc \in {"built", "failed"}
success == pc = "built"

\* export_to_json (lines 446-469).
export_to_json ==
  /\ success
  /\ output' = DictPut(output, [id |-> "advanced_graph.json", content |-> GraphData])
  /\ verification_log' =
       Info(Info(verification_log, "Exporting graph to JSON: output/advanced_graph.json"),
            "Exported to output/advanced_graph.json")
  /\ pc' = "exported"
  /\ UNCHANGED <<chunks_dir, nodes, edges, all_chunks, documents,
                 similarity_threshold, max_links>>

\* export_verification_log (lines 471-478).
export_verification_log ==
  /\ pc = "exported"
  /\ LET log == Info(verification_log,
                     "Exporting verification log: output/advanced_build_log.txt")
     IN /\ output' = DictPut(output, [id |-> "advanced_build_log.txt", content |-> log])
        /\ verification_log' =
             Info(log, "Exported verification log with " \o ToStr(Len(log)) \o " entries")
  /\ pc' = "done"
  /\ UNCHANGED <<chunks_dir, nodes, edges, all_chunks, documents,
                 similarity_threshold, max_links>>

(***************************************************************************)
(* main (lines 481-506): one builder, one build, then the exports.         *)
(***************************************************************************)
Next ==
  \/ load_all_documents
  \/ build_standard_nodes
  \/ build_clause_nodes
  \/ build_requirement_nodes
  \/ build_structural_edges
  \/ detect_cross_references
  \/ detect_semantic_similarities
  \/ export_to_json
  \/ export_verification_log

Spec == Init /\ [][Next]_vars

(***************************************************************************)
(* A builder that is used again: nothing in the class ends its life after   *)
(* the exports, so its holder can call build_graph on it once more and       *)
(* export again.                                                             *)
(***************************************************************************)
MaxBuilds == 2

ReuseInputs == Roots(ScenarioFamily) \cup Roots(CitationFamily)

InitReuse ==
  /\ pc = "main"
  /\ chunks_dir \in ReuseInputs
  /\ output = <<>>
  /\ nodes = <<>>
  /\ edges = <<>>
  /\ all_chunks = <<>>
  /\ documents = <<>>
  /\ verification_log = <<>>
  /\ similarity_threshold = None
  /\ max_links = None

\* The calls of build_graph so far, each of which logs the banner (line 381).
Builds ==
  Cardinality({ i \in 1..Len(verification_log) :
                  verification_log[i].message = "ADVANCED MULTI-DOCUMENT KNOWLEDGE GRAPH BUILDER" })

\* build_graph (lines 378-388) called on the builder after its exports; the
\* phases and the exports then follow as in the first build.
build_graph_again ==
  /\ pc = "done"
  /\ Builds < MaxBuilds
  /\ LoadAndTest

NextReuse ==
  \/ load_all_documents
  \/ build_standard_nodes
  \/ build_clause_nodes
  \/ build_requirement_nodes
  \/ build_structural_edges
  \/ detect_cross_references
  \/ detect_semantic_similarities
  \/ export_to_json
  \/ export_verification_log
  \/ build_graph_again

SpecReuse == InitReuse /\ [][NextReuse]_vars

(***************************************************************************)
(* Properties.                                                             *)
(***************************************************************************)
\* main's positions after each phase has run.
AfterNodeCreation == pc \in {"requirements", "structural", "references", "built", "exported", "done"}
AfterStructuralEdges == pc \in {"structural", "references", "built", "exported", "done"}
AfterCrossReferences == pc \in {"references", "built", "exported", "done"}
AfterSimilarities == pc \in {"built", "exported", "done"}

NodeIndices(t) == { i \in 1..Len(nodes) : nodes[i].type = t }
ClauseSet == { nodes[i] : i \in NodeIndices("Clause") }
\* The positions in the edge sequence of the edges of relationship r into target.
EdgesInto(target, r) == { k \in 1..Len(edges) : edges[k][2] = target /\ edges[k][3] = r }
EdgesOfKind(r) == { k \in 1..Len(edges) : edges[k][3] = r }
\* The number of edges equal to e.
Occurrences(e) == Cardinality({ k \in 1..Len(edges) : edges[k] = e })
\* The Clause nodes that are the parent a clause declares: same document,
\* clause_id equal to the declared parent id.
ParentsOf(n) == { m \in ClauseSet : m.clause_id = n.parent_id /\ m.document_id = n.document_id }
DocumentIds == { documents[i].id : i \in 1..Len(documents) }

\* The normalisation the design describes for citations and document ids
\* alike: whitespace and colons stripped, upper-cased.
Normalized(x) == Upper(Replace(Replace(Replace(x, " ", ""), "\t", ""), ":", ""))

\* C1: a citation whose normalised form contains, or is contained in, the
\* identically normalised id of a known document yields a REFERENCES edge
\* from the citing clause to that document's Standard node; a clause of
\* EN_50173 whose text contains "see EN 50174-2 for cabling" has exactly one
\* REFERENCES edge to STANDARD_EN_50174-2 when both documents are loaded.
C1_CitationYieldsReference ==
  AfterCrossReferences =>
    /\ \A n \in ClauseSet : \A ref \in Refs(n.full_text) : \A d \in DocumentIds :
         (Contains(Normalized(ref), Normalized(d)) \/ Contains(Normalized(d), Normalized(ref)))
           => Occurrences(<<n.id, "STANDARD_" \o d, "REFERENCES">>) >= 1
    /\ {"EN_50173", "EN_50174-2"} \subseteq DocumentIds =>
         \A n \in ClauseSet :
           (n.document_id = "EN_50173" /\ Contains(n.full_text, "see EN 50174-2 for cabling"))
             => Occurrences(<<n.id, "STANDARD_EN_50174-2", "REFERENCES">>) = 1

\* C2: in every state both ends of every edge are keys of the node registry,
\* and a clause whose declared parent does not resolve is the target of no
\* structural edge.
C2_EdgesJoinRegisteredNodes ==
  /\ \A k \in 1..Len(edges) : edges[k][1] \in Keys(nodes) /\ edges[k][2] \in Keys(nodes)
  /\ \A n \in ClauseSet :
       (Truthy(n.parent_id) /\ ParentsOf(n) = {})
         => EdgesInto(n.id, "HAS_SUBCLAUSE") \cup EdgesInto(n.id, "HAS_CLAUSE") = {}

C2_Witness ==
  /\ AfterStructuralEdges
  /\ EdgesOfKind("HAS_CLAUSE") # {}
  /\ \E n \in ClauseSet : Truthy(n.parent_id) /\ ParentsOf(n) = {}

\* C3: after build_structural_edges, a clause whose declared parent resolves
\* to a clause of its own document has exactly one incoming HAS_SUBCLAUSE
\* edge, from that parent, and no HAS_CLAUSE edge.
C3_ResolvedParentHasOneSubclauseEdge ==
  AfterStructuralEdges =>
    \A n \in ClauseSet :
      (n.parent_id # None /\ ParentsOf(n) # {}) =>
        /\ Cardinality(EdgesInto(n.id, "HAS_SUBCLAUSE")) = 1
        /\ \A k \in EdgesInto(n.id, "HAS_SUBCLAUSE") : \E m \in ParentsOf(n) : edges[k][1] = m.id
        /\ EdgesInto(n.id, "HAS_CLAUSE") = {}

C3_Witness ==
  /\ AfterStructuralEdges
  /\ \E n \in ClauseSet : \E m \in ParentsOf(n) :
       /\ n.parent_id # None /\ m.id # n.id
       /\ \E o \in ClauseSet : o.clause_id = n.parent_id /\ o.document_id # n.document_id

\* C4 as claimed: after build_structural_edges, every clause without a
\* resolvable same-document parent has exactly one incoming HAS_CLAUSE edge,
\* from the Standard node of its own document_id.
C4_EveryParentlessClauseHasRootEdge ==
  AfterStructuralEdges =>
    \A n \in ClauseSet :
      (n.parent_id = None \/ ParentsOf(n) = {}) =>
        /\ Cardinality(EdgesInto(n.id, "HAS_CLAUSE")) = 1
        /\ \A k \in EdgesInto(n.id, "HAS_CLAUSE") : edges[k][1] = "STANDARD_" \o n.document_id

\* C4 as amended: after build_structural_edges, a clause that declares no
\* parent id (None or empty) and whose document_id has a Standard node in the
\* registry has exactly one incoming HAS_CLAUSE edge, from that Standard
\* node, and no HAS_SUBCLAUSE edge; a clause that declares a parent id that
\* does not resolve, or whose document_id has no Standard node, has no
\* incoming HAS_CLAUSE edge.
C4_UndeclaredParentHasOneRootEdge ==
  AfterStructuralEdges =>
    \A n \in ClauseSet :
      LET roots == { i \in NodeIndices("Standard") : nodes[i].document_id = n.document_id }
      IN /\ (~Truthy(n.parent_id) /\ roots # {}) =>
              /\ Cardinality(EdgesInto(n.id, "HAS_CLAUSE")) = 1
              /\ \A k \in EdgesInto(n.id, "HAS_CLAUSE") :
                   /\ edges[k][1] = "STANDARD_" \o n.document_id
                   /\ \E i \in roots : nodes[i].id = edges[k][1]
              /\ EdgesInto(n.id, "HAS_SUBCLAUSE") = {}
         /\ (Truthy(n.parent_id) \/ roots = {}) => EdgesInto(n.id, "HAS_CLAUSE") = {}

C4_Witness ==
  /\ AfterStructuralEdges
  /\ \E n \in ClauseSet : n.parent_id = None /\ n.document_id = "EN_50174-2"
                          /\ EdgesInto(n.id, "HAS_CLAUSE") # {}
  /\ \E n \in ClauseSet : Truthy(n.parent_id) /\ ParentsOf(n) = {}

\* C5: generate_node_id gives different Clause node ids to any two chunks
\* with different (document_id, chunk_id) pairs.
C5_ClauseIdsInjective ==
  \A i, j \in 1..Len(all_chunks) :
    <<all_chunks[i].document_id, all_chunks[i].chunk_id>>
        # <<all_chunks[j].document_id, all_chunks[j].chunk_id>>
      => generate_node_id(all_chunks[i].document_id, all_chunks[i].chunk_id, "CLAUSE")
           # generate_node_id(all_chunks[j].document_id, all_chunks[j].chunk_id, "CLAUSE")

\* The number of requirement records of the loaded chunks.
RECURSIVE RequirementCount(_)
RequirementCount(chunks) ==
  IF chunks = <<>> THEN 0 ELSE Len(Head(chunks).requirements) + RequirementCount(Tail(chunks))

\* C6: node creation never overwrites: after it the registry holds one node
\* per loaded document, one per loaded chunk and one per requirement record.
C6_EveryEntityCreatedOnce ==
  AfterNodeCreation =>
    /\ Cardinality(NodeIndices("Standard")) = Len(documents)
    /\ Cardinality(NodeIndices("Clause")) = Len(all_chunks)
    /\ Cardinality(NodeIndices("Requirement")) = RequirementCount(all_chunks)

\* C7: every SIMILAR_TO edge joins two distinct Clause nodes whose
\* document_id values differ.
C7_SimilarOnlyAcrossDocuments ==
  \A k \in EdgesOfKind("SIMILAR_TO") :
    \E a, b \in ClauseSet :
      /\ a.id = edges[k][1] /\ b.id = edges[k][2]
      /\ a.id # b.id
      /\ a.document_id # b.document_id

\* A pair of distinct clauses of one document that would qualify by its score.
C7_Witness ==
  /\ EdgesOfKind("SIMILAR_TO") # {}
  /\ \E a, b \in ClauseSet :
       /\ a.id # b.id /\ a.document_id = b.document_id
       /\ a.full_text # "" /\ b.full_text # ""
       /\ Geq(_calculate_similarity(a.full_text, b.full_text), similarity_threshold)

\* C8: the number of SIMILAR_TO edges never exceeds max_links.
C8_CapRespected ==
  IF AfterSimilarities
  THEN Cardinality(EdgesOfKind("SIMILAR_TO")) <= max_links
  ELSE EdgesOfKind("SIMILAR_TO") = {}

\* The pairs of positions (i, j), i < j, of the clause sequence cs that are
\* eligible (different documents, both texts non-empty) and score at least t.
QualifyingPairs(cs, t) ==
  { p \in (1..Len(cs)) \X (1..Len(cs)) :
      /\ p[1] < p[2]
      /\ cs[p[1]].document_id # cs[p[2]].document_id
      /\ cs[p[1]].full_text # "" /\ cs[p[2]].full_text # ""
      /\ Geq(_calculate_similarity(cs[p[1]].full_text, cs[p[2]].full_text), t) }
\* p comes before q in the traversal: outer position first, then inner.
Before(p, q) == p[1] < q[1] \/ (p[1] = q[1] /\ p[2] < q[2])

C8_Witness ==
  /\ AfterSimilarities
  /\ Cardinality(EdgesOfKind("SIMILAR_TO")) = max_links
  /\ Cardinality(QualifyingPairs(ClauseNodesOf(nodes), similarity_threshold)) > max_links

\* C9: the SIMILAR_TO edges are exactly the first max_links qualifying pairs
\* of the traversal (outer loop over the clauses in registry order, inner loop
\* over the later clauses), in that order.
C9_AcceptedPairsArePrefix ==
  AfterSimilarities =>
    LET cs == ClauseNodesOf(nodes)
        Q == QualifyingPairs(cs, similarity_threshold)
        kept == { p \in Q : Cardinality({ q \in Q : Before(q, p) }) < max_links }
        sim == SelectSeq(edges, LAMBDA e : e[3] = "SIMILAR_TO")
    IN /\ Len(sim) = Cardinality(kept)
       /\ \A p \in kept :
            sim[Cardinality({ q \in Q : Before(q, p) }) + 1] = <<cs[p[1]].id, cs[p[2]].id, "SIMILAR_TO">>

\* The cap cuts the traversal short of a later qualifying pair that scores
\* higher than the pair kept.
C9_Witness ==
  /\ AfterSimilarities
  /\ max_links = 1
  /\ LET cs == ClauseNodesOf(nodes)
         Q == QualifyingPairs(cs, similarity_threshold)
     IN \E p, q \in Q :
          /\ Before(p, q)
          /\ edges[Len(edges)] = <<cs[p[1]].id, cs[p[2]].id, "SIMILAR_TO">>
          /\ ~Geq(_calculate_similarity(cs[p[1]].full_text, cs[p[2]].full_text),
                  _calculate_similarity(cs[q[1]].full_text, cs[q[2]].full_text))

\* C10: while the cap has not been reached, a pair of clauses of different
\* documents with non-empty texts is a SIMILAR_TO edge if and only if its
\* similarity is at least the threshold.
C10_EdgeIffAtLeastThreshold ==
  (AfterSimilarities /\ Cardinality(EdgesOfKind("SIMILAR_TO")) < max_links) =>
    LET cs == ClauseNodesOf(nodes)
    IN \A i, j \in 1..Len(cs) :
         (i < j /\ cs[i].document_id # cs[j].document_id
                /\ cs[i].full_text # "" /\ cs[j].full_text # "") =>
           (Occurrences(<<cs[i].id, cs[j].id, "SIMILAR_TO">>) = 1
              <=> Geq(_calculate_similarity(cs[i].full_text, cs[j].full_text), similarity_threshold))

\* One pair scores exactly the threshold and is an edge, another scores below
\* it and is none.
C10_Witness ==
  /\ AfterSimilarities
  /\ Cardinality(EdgesOfKind("SIMILAR_TO")) < max_links
  /\ LET cs == ClauseNodesOf(nodes)
     IN /\ \E i, j \in 1..Len(cs) :
             /\ i < j
             /\ _calculate_similarity(cs[i].full_text, cs[j].full_text) = similarity_threshold
             /\ Occurrences(<<cs[i].id, cs[j].id, "SIMILAR_TO">>) = 1
        /\ \E i, j \in 1..Len(cs) :
             /\ i < j /\ cs[i].document_id # cs[j].document_id
             /\ cs[i].full_text # "" /\ cs[j].full_text # ""
             /\ ~Geq(_calculate_similarity(cs[i].full_text, cs[j].full_text), similarity_threshold)
             /\ Occurrences(<<cs[i].id, cs[j].id, "SIMILAR_TO">>) = 0

\* C11: _calculate_similarity is symmetric, and detect_semantic_similarities
\* never compares a clause with itself and visits an unordered pair of
\* clauses at most once: no SIMILAR_TO edge joins a clause to itself and at
\* most one SIMILAR_TO edge exists per unordered pair of clauses.
C11_SymmetricAndOncePerPair ==
  /\ pc = "references" =>
       \A n1, n2 \in ClauseSet :
         _calculate_similarity(n1.full_text, n2.full_text)
           = _calculate_similarity(n2.full_text, n1.full_text)
  /\ \A k \in EdgesOfKind("SIMILAR_TO") :
       /\ edges[k][1] # edges[k][2]
       /\ \A m \in EdgesOfKind("SIMILAR_TO") :
            {edges[m][1], edges[m][2]} = {edges[k][1], edges[k][2]} => m = k

C11_Witness ==
  /\ AfterSimilarities
  /\ \E n1, n2 \in ClauseSet :
       LET similarity == _calculate_similarity(n1.full_text, n2.full_text)
       IN /\ Cardinality(Words(Lower(n1.full_text))) # Cardinality(Words(Lower(n2.full_text)))
          /\ 0 < similarity.num /\ similarity.num < similarity.den
          /\ \E k \in EdgesOfKind("SIMILAR_TO") : edges[k][1] = n1.id /\ edges[k][2] = n2.id

\* What a fresh builder holds after a build of chunks_dir: its chunks and
\* documents under listing order l, its node registry, and every edge
\* sequence it can hold after the cross-reference phase, and the SIMILAR_TO
\* edges the similarity phase adds under the given arguments.
FreshLoad(l) ==
  LoadDirs(l.iterdir, "chunks", l.glob,
           [documents |-> <<>>, all_chunks |-> <<>>, doc_chunks |-> <<>>, log |-> <<>>])
FreshNodes(l) ==
  LET b == FreshLoad(l)
      standards == StandardNodes(b.documents, [nodes |-> <<>>, log |-> <<>>])
      clauses == ClauseNodes(b.all_chunks, 1, standards)
  IN RequirementNodes(b.all_chunks, [nodes |-> clauses.nodes, req_count |-> 0]).nodes
FreshEdges(ns, docs) ==
  LET structural == RequirementEdgeLoop(ns, 1, ClauseEdgeLoop(ns, 1, <<>>))
  IN { structural \o refs : refs \in ReferenceOutcomes(ns, ClauseNodesOf(ns), docs) }
FreshSimilarities(ns, threshold, cap) ==
  SimilarOuter(ClauseNodesOf(ns), 1, threshold, cap,
               [edges |-> <<>>, sim_count |-> 0, log |-> <<>>]).edges

\* Edge sequences that hold the same edges with the same multiplicities and
\* differ at most in the order of the REFERENCES edges leaving one clause.
SameUpToReferenceOrder(es1, es2) ==
  /\ Len(es1) = Len(es2)
  /\ \A k \in 1..Len(es1) :
       \/ es1[k] = es2[k]
       \/ /\ es1[k][3] = "REFERENCES" /\ es2[k][3] = "REFERENCES"
          /\ es1[k][1] = es2[k][1]
  /\ \A k \in 1..Len(es1) :
       Cardinality({ m \in 1..Len(es1) : es1[m] = es1[k] })
         = Cardinality({ m \in 1..Len(es2) : es2[m] = es1[k] })

\* C12: every build of a fresh builder on the same input directory, with the
\* same similarity arguments, ends with the node registry and with the edge
\* sequence of this build.
C12_BuildsAreIdentical ==
  /\ pc = "requirements" => \A l \in ListingOrders(chunks_dir) : FreshNodes(l) = nodes
  /\ pc = "references" => \A es \in FreshEdges(nodes, documents) : es = edges
  /\ pc = "built" =>
       /\ SelectSeq(edges, LAMBDA e : e[3] = "SIMILAR_TO")
            = FreshSimilarities(nodes, similarity_threshold, max_links)
       /\ \A k \in 1..Len(edges) :
            edges[k][3] = "SIMILAR_TO" => \A m \in k..Len(edges) : edges[m][3] = "SIMILAR_TO"

\* C12 as amended: every such build ends with the node registry of this
\* build and with its edges in the same multiplicities; the edge sequences
\* are equal but for the order of the REFERENCES edges leaving one clause.
C12_BuildsAgreeUpToReferenceOrder ==
  /\ pc = "requirements" => \A l \in ListingOrders(chunks_dir) : FreshNodes(l) = nodes
  /\ pc = "references" =>
       \A es \in FreshEdges(nodes, documents) : SameUpToReferenceOrder(es, edges)
  /\ pc = "built" =>
       /\ SelectSeq(edges, LAMBDA e : e[3] = "SIMILAR_TO")
            = FreshSimilarities(nodes, similarity_threshold, max_links)
       /\ \A k \in 1..Len(edges) :
            edges[k][3] = "SIMILAR_TO" => \A m \in k..Len(edges) : edges[m][3] = "SIMILAR_TO"

C12_Witness ==
  /\ pc = "built"
  /\ \E i \in 1..Len(documents) : Len(documents[i].chunks) >= 2
  /\ \E k, m \in EdgesOfKind("REFERENCES") :
       edges[k][1] = edges[m][1] /\ edges[k][2] # edges[m][2]
  /\ EdgesOfKind("SIMILAR_TO") # {}

\* C13: when zero chunks are loaded across all documents, build_graph aborts
\* before any node creation: it logs the error and returns False, the node
\* registry and the edge sequence stay empty, and neither the graph file nor
\* the build log file is written.
C13_EmptyCorpusAborts ==
  (pc # "main" /\ all_chunks = <<>>) =>
    /\ pc = "failed"
    /\ verification_log[Len(verification_log)]
         = [level |-> "ERROR", message |-> "No chunks loaded. Aborting."]
    /\ nodes = <<>>
    /\ edges = <<>>
    /\ output = <<>>

C13_Witness ==
  /\ pc = "failed"
  /\ all_chunks = <<>>
  /\ Len(documents) = 2
  /\ \E i \in 1..Len(verification_log) :
       verification_log[i] = [level |-> "ERROR", message |-> "Failed to load chunks/EN_50173/c1.json"]

\* The document directories of the input and the path of a file of one.
DocumentDirs == { e \in chunks_dir : e.is_dir }
PathOf(e, f) == "chunks/" \o e.name \o "/" \o f.name
\* The positions in a chunk sequence of the chunks read from path.
LoadedFrom(chunks, path) == { i \in 1..Len(chunks) : chunks[i]._source_file = path }

\* C14: after load_all_documents, a file that fails to read or parse has an
\* ERROR entry in the log and no chunk in its document's list or in
\* all_chunks, every other file of every document has its chunk in both, and
\* the build goes on when any chunk was loaded.
C14_FailedChunkDroppedOthersLoaded ==
  pc \in {"loaded", "failed"} =>
    /\ \A e \in DocumentDirs :
         /\ e.name \in DocumentIds
         /\ LET doc_chunks == DictGet(documents, e.name).chunks
            IN /\ \A f \in e.files :
                    IF f.body.ok
                    THEN /\ Cardinality(LoadedFrom(doc_chunks, PathOf(e, f))) = 1
                         /\ Cardinality(LoadedFrom(all_chunks, PathOf(e, f))) = 1
                         /\ \A i \in LoadedFrom(all_chunks, PathOf(e, f)) :
                              all_chunks[i] = WithSourceFile(f.body.json, PathOf(e, f))
                    ELSE /\ LoadedFrom(doc_chunks, PathOf(e, f)) = {}
                         /\ LoadedFrom(all_chunks, PathOf(e, f)) = {}
                         /\ \E i \in 1..Len(verification_log) :
                              /\ verification_log[i].level = "ERROR"
                              /\ verification_log[i].message = "Failed to load " \o PathOf(e, f)
               /\ Len(doc_chunks) = Cardinality({ f \in e.files : f.body.ok })
    /\ (\E e \in DocumentDirs : \E f \in e.files : f.body.ok) => pc # "failed"

C14_Witness ==
  /\ AfterSimilarities
  /\ \E e1, e2 \in DocumentDirs :
       /\ e1 # e2
       /\ \E f, g \in e1.files :
            /\ ~f.body.ok /\ g.body.ok /\ StrLess(f.name, g.name)
            /\ LoadedFrom(all_chunks, PathOf(e1, g)) # {}
       /\ \E f \in e2.files : LoadedFrom(all_chunks, PathOf(e2, f)) # {}

\* The nodes whose lookup in build_structural_edges misses: a Clause that
\* declares a parent id no Clause of its document has, and a Requirement
\* whose owning clause id no Clause of its document has.
UnresolvedNodes ==
  { i \in 1..Len(nodes) :
      \/ /\ nodes[i].type = "Clause"
         /\ Truthy(nodes[i].parent_id)
         /\ ParentsOf(nodes[i]) = {}
      \/ /\ nodes[i].type = "Requirement"
         /\ ~\E m \in ClauseSet : /\ m.clause_id = nodes[i].parent_clause
                                  /\ m.document_id = nodes[i].document_id }
\* The number of log entries since the last entry with the given message.
EntriesSince(message) ==
  LET at == { i \in 1..Len(verification_log) : verification_log[i].message = message }
  IN Len(verification_log) - (CHOOSE i \in at : \A j \in at : j <= i)

\* C15: when a Clause's declared parent or a Requirement's owning clause does
\* not resolve, build_structural_edges appends a log entry for the miss,
\* emits no edge for that node, and goes on with the remaining nodes: after
\* the phase the log holds, behind the phase's heading, an entry per miss
\* beside the closing count, and a missed node has no structural edge into it.
C15_MissIsLoggedAndSkipped ==
  pc = "structural" =>
    /\ EntriesSince("PHASE 5: CREATING STRUCTURAL EDGES") >= 1 + Cardinality(UnresolvedNodes)
    /\ \A i \in UnresolvedNodes :
         \A r \in {"HAS_CLAUSE", "HAS_SUBCLAUSE", "CONTAINS_REQUIREMENT"} :
           EdgesInto(nodes[i].id, r) = {}

\* C16: after build_structural_edges every Requirement node has exactly one
\* incoming CONTAINS_REQUIREMENT edge, and its source is the Clause node of
\* the same document whose clause_id is the requirement's owning clause id.
C16_RequirementHasOneOwner ==
  AfterStructuralEdges =>
    \A i \in NodeIndices("Requirement") :
      LET n == nodes[i]
          owners == EdgesInto(n.id, "CONTAINS_REQUIREMENT")
      IN /\ Cardinality(owners) = 1
         /\ \A k \in owners :
              \E m \in ClauseSet : /\ m.id = edges[k][1]
                                   /\ m.clause_id = n.parent_clause
                                   /\ m.document_id = n.document_id

\* The place of a relationship in the order of the edge phases.
PhaseOfEdge(e) ==
  CASE e[3] \in {"HAS_CLAUSE", "HAS_SUBCLAUSE", "CONTAINS_REQUIREMENT"} -> 5
    [] e[3] = "REFERENCES" -> 6
    [] e[3] = "SIMILAR_TO" -> 7
\* main's moves: the phases of build_graph in their order, then the exports.
PhaseOrder ==
  { <<"main", "loaded">>, <<"main", "failed">>, <<"loaded", "standards">>,
    <<"standards", "clauses">>, <<"clauses", "requirements">>,
    <<"requirements", "structural">>, <<"structural", "references">>,
    <<"references", "built">>, <<"built", "exported">>, <<"exported", "done">> }

\* C17: the phases run in the order load, Standard nodes, Clause nodes,
\* Requirement nodes, structural edges, cross-references, similarity; no edge
\* is appended before all nodes have been created (a step that changes the
\* edges leaves the registry alone and extends the sequence, a step that
\* changes the registry finds and leaves no edge); in the edge sequence the
\* structural edges precede the REFERENCES edges, which precede the
\* SIMILAR_TO edges; and a file is written only after build_graph returned
\* True.
C17_PhasesInOrder ==
  /\ [](/\ \A i, j \in 1..Len(edges) : i < j => PhaseOfEdge(edges[i]) <= PhaseOfEdge(edges[j])
        /\ edges # <<>> => AfterStructuralEdges
        /\ output # <<>> => /\ pc \in {"exported", "done"}
                            /\ all_chunks # <<>>
                            /\ \A i \in 1..Len(verification_log) :
                                 verification_log[i].level # "ERROR"
                                   \/ verification_log[i].message # "No chunks loaded. Aborting.")
  /\ [][/\ <<pc, pc'>> \in PhaseOrder
        /\ edges' # edges => /\ AfterNodeCreation
                             /\ nodes' = nodes
                             /\ Len(edges') > Len(edges)
                             /\ SubSeq(edges', 1, Len(edges)) = edges
        /\ nodes' # nodes => edges = <<>> /\ edges' = <<>>]_vars

C17_Witness ==
  /\ pc = "done"
  /\ "advanced_graph.json" \in Keys(output)
  /\ \E r \in {"HAS_CLAUSE", "HAS_SUBCLAUSE", "CONTAINS_REQUIREMENT"} : EdgesOfKind(r) # {}
  /\ EdgesOfKind("REFERENCES") # {}
  /\ EdgesOfKind("SIMILAR_TO") # {}

\* The obligation level the design gives a keyword, letter case aside.
LevelOf(keyword) ==
  LET k == Lower(keyword)
  IN IF k = "shall" \/ k = "must" THEN "MANDATORY"
     ELSE IF k = "should" THEN "RECOMMENDED"
     ELSE IF k = "may" \/ k = "can" THEN "OPTIONAL"
     ELSE "UNKNOWN"
Keywords ==
  {"shall", "Shall", "SHALL", "must", "Must", "should", "SHOULD", "may", "MAY",
   "can", "Can", "", "whatever", "will", "shall not", "cannot", "s"}

\* C18: _get_obligation_level maps shall and must to MANDATORY, should to
\* RECOMMENDED, may and can to OPTIONAL and every other keyword, the empty
\* one included, to UNKNOWN, whatever the letter case; and every Requirement
\* node's obligation_level is that mapping of its keyword.
C18_ObligationLevels ==
  /\ pc = "main" =>
       /\ \A keyword \in Keywords : _get_obligation_level(keyword) = LevelOf(keyword)
       /\ _get_obligation_level("SHOULD") = "RECOMMENDED"
       /\ _get_obligation_level("whatever") = "UNKNOWN"
       /\ _get_obligation_level("") = "UNKNOWN"
  /\ \A i \in NodeIndices("Requirement") :
       nodes[i].obligation_level = LevelOf(nodes[i].keyword)

C18_Witness ==
  /\ AfterNodeCreation
  /\ \E i, j, k \in NodeIndices("Requirement") :
       /\ nodes[i].keyword = "SHOULD" /\ nodes[i].obligation_level = "RECOMMENDED"
       /\ nodes[j].keyword = "Must" /\ nodes[j].obligation_level = "MANDATORY"
       /\ nodes[k].keyword = "" /\ nodes[k].obligation_level = "UNKNOWN"

\* The record written to output/advanced_graph.json.
ExportedGraph == DictGet(output, "advanced_graph.json").content

\* C19: the record written by export_to_json agrees with the graph at export
\* time: node_count is the number of exported node records, edge_count the
\* number of exported edges, document_count the length of the documents list,
\* chunk_count the number of Clause nodes, and the edges list holds every
\* edge of the edge sequence as a source/target/relationship record in the
\* same order.
C19_ExportConsistent ==
  pc \in {"exported", "done"} =>
    LET g == ExportedGraph
    IN /\ g.nodes = nodes
       /\ g.metadata.node_count = Len(g.nodes)
       /\ g.metadata.edge_count = Len(g.edges)
       /\ g.metadata.document_count = Len(g.documents)
       /\ g.metadata.chunk_count
            = Cardinality({ i \in 1..Len(g.nodes) : g.nodes[i].type = "Clause" })
       /\ Len(g.edges) = Len(edges)
       /\ \A k \in 1..Len(edges) :
            /\ g.edges[k].source = edges[k][1]
            /\ g.edges[k].target = edges[k][2]
            /\ g.edges[k].relationship = edges[k][3]

\* C20: once export_to_json has completed, no later operation of the builder
\* (a build phase, build_graph, a further export) adds, removes or changes a
\* node or an edge.
C20_GraphImmutableAfterExport ==
  [][("advanced_graph.json" \in Keys(output)) => (nodes' = nodes /\ edges' = edges)]_vars

\* C21: REFERENCES edges record citations of other corpus documents: no
\* REFERENCES edge goes from a Clause to the Standard node of that clause's
\* own document.
C21_NoSelfReference ==
  \A k \in EdgesOfKind("REFERENCES") : \A n \in ClauseSet :
    n.id = edges[k][1] => edges[k][2] # "STANDARD_" \o n.document_id

\* The distinct raw matches of a clause text that lines 298-304 accept for
\* document d.
AcceptedMatches(full_text, d) ==
  LET found == MatchesFrom(full_text, 1)
  IN { r \in { Strip(found[i]) : i \in 1..Len(found) } : RefMatchesDocument(r, d) }

\* C22: matches are deduplicated per clause before resolution: for each
\* clause and each document, detect_cross_references emits exactly one
\* REFERENCES edge per distinct raw match accepted for that document, however
\* often the match occurs in the clause text.
C22_OneEdgePerDistinctMatch ==
  pc = "references" =>
    \A n \in ClauseSet : \A d \in DocumentIds :
      Occurrences(<<n.id, "STANDARD_" \o d, "REFERENCES">>)
        = Cardinality(AcceptedMatches(n.full_text, d))

\* A clause in which one raw match occurs twice and yields one edge, and a
\* clause with two distinct accepted matches and two edges to one document.
C22_Witness ==
  /\ pc = "references"
  /\ \E n \in ClauseSet : \E d \in DocumentIds :
       /\ Len(MatchesFrom(n.full_text, 1)) > Cardinality(Refs(n.full_text))
       /\ Cardinality(AcceptedMatches(n.full_text, d)) = 1
       /\ Occurrences(<<n.id, "STANDARD_" \o d, "REFERENCES">>) = 1
  /\ \E n \in ClauseSet : \E d \in DocumentIds :
       Occurrences(<<n.id, "STANDARD_" \o d, "REFERENCES">>) >= 2

\* The token set of a text: the maximal whitespace-free pieces of the
\* lower-cased text that are not stop words.
Tokens(text) ==
  LET s == Lower(text)
      starts == { i \in 1..Len(s) : /\ ~IsSpace(CharAt(s, i))
                                    /\ (i = 1 \/ IsSpace(CharAt(s, i - 1))) }
      EndOf(i) == CHOOSE j \in i..Len(s) :
                    /\ \A k \in i..j : ~IsSpace(CharAt(s, k))
                    /\ (j = Len(s) \/ IsSpace(CharAt(s, j + 1)))
  IN { SubSeq(s, i, EndOf(i)) : i \in starts } \ common_words

\* C23: _calculate_similarity returns the Jaccard coefficient of the two
\* texts' token sets, |intersection| / |union|, and 0 whenever either token
\* set is empty after stop-word removal; stated of every two clause texts of
\* a build run with build_graph's own arguments.
C23_SimilarityIsJaccard ==
  (pc = "built" /\ similarity_threshold = Frac(3, 10) /\ max_links = BuildGraphMaxLinks) =>
    \A n1, n2 \in ClauseSet :
      LET t1 == Tokens(n1.full_text)
          t2 == Tokens(n2.full_text)
          r == _calculate_similarity(n1.full_text, n2.full_text)
      IN /\ r.den > 0
         /\ IF t1 = {} \/ t2 = {} THEN r.num = 0
            ELSE r.num * Cardinality(t1 \cup t2) = Cardinality(t1 \cap t2) * r.den

\* Two documents whose clauses score strictly between 0 and 1, and a clause
\* whose text is not empty but whose token set is.
C23_Witness ==
  /\ pc = "built" /\ similarity_threshold = Frac(3, 10) /\ max_links = BuildGraphMaxLinks
  /\ \E n1, n2 \in ClauseSet :
       LET r == _calculate_similarity(n1.full_text, n2.full_text)
       IN /\ n1.document_id # n2.document_id
          /\ 0 < r.num /\ r.num < r.den
          /\ Lower(n1.full_text) # n1.full_text
  /\ \E n1, n2 \in ClauseSet :
       /\ n1.document_id # n2.document_id
       /\ n1.full_text # "" /\ Tokens(n1.full_text) = {} /\ Tokens(n2.full_text) # {}

\* C24: a pair in which either clause has an empty full text is skipped, not
\* zero-scored: a clause with empty text is never an endpoint of a SIMILAR_TO
\* edge, whatever the threshold, a threshold of 0 included.
C24_EmptyTextNeverSimilar ==
  \A k \in EdgesOfKind("SIMILAR_TO") : \A n \in ClauseSet :
    n.id \in {edges[k][1], edges[k][2]} => n.full_text # ""

\* A build with threshold 0 and no effective cap in which a pair scoring 0 is
\* linked while a clause with empty text, facing a clause of the other
\* document that has text, is linked to nothing.
C24_Witness ==
  /\ pc = "built" /\ similarity_threshold = Frac(0, 1) /\ max_links = BuildGraphMaxLinks
  /\ \E k \in EdgesOfKind("SIMILAR_TO") : \E n1, n2 \in ClauseSet :
       /\ n1.id = edges[k][1] /\ n2.id = edges[k][2]
       /\ _calculate_similarity(n1.full_text, n2.full_text).num = 0
  /\ \E n1, n2 \in ClauseSet :
       /\ n1.document_id # n2.document_id
       /\ n1.full_text = "" /\ n2.full_text # ""
       /\ \A k \in EdgesOfKind("SIMILAR_TO") : n1.id \notin {edges[k][1], edges[k][2]}

\* The per-document index the design asks for: keyed by document id and
\* clause id, it receives the Clause node id of each chunk as
\* build_clause_nodes creates that chunk's node.
RECURSIVE ClauseIndex(_, _, _)
ClauseIndex(chunks, idx, index) ==
  IF idx > Len(chunks) THEN index
  ELSE ClauseIndex(chunks, idx + 1,
         DictPut(index, [id |-> <<chunks[idx].document_id, chunks[idx].chunk_id>>,
                         node_id |-> generate_node_id(chunks[idx].document_id,
                                                      chunks[idx].chunk_id, "CLAUSE")]))
IndexLookup(index, clause_id, document_id) ==
  IF <<document_id, clause_id>> \in Keys(index)
  THEN DictGet(index, <<document_id, clause_id>>).node_id
  ELSE None

\* The structural edges when both loops of build_structural_edges resolve
\* parents through the index.
RECURSIVE IndexedClauseEdges(_, _, _, _)
IndexedClauseEdges(index, ns, i, es) ==
  IF i > Len(ns) THEN es
  ELSE LET node == ns[i]
           found == IF node.type = "Clause" /\ Truthy(node.parent_id)
                    THEN IndexLookup(index, node.parent_id, node.document_id)
                    ELSE None
       IN IndexedClauseEdges(index, ns, i + 1,
            es \o (IF node.type = "Clause" /\ Truthy(node.parent_id)
                   THEN (IF Truthy(found) THEN << <<found, node.id, "HAS_SUBCLAUSE">> >> ELSE <<>>)
                   ELSE ClauseEdges(ns, node)))
RECURSIVE IndexedRequirementEdges(_, _, _, _)
IndexedRequirementEdges(index, ns, i, es) ==
  IF i > Len(ns) THEN es
  ELSE LET node == ns[i]
           found == IF node.type = "Requirement"
                    THEN IndexLookup(index, node.parent_clause, node.document_id)
                    ELSE None
       IN IndexedRequirementEdges(index, ns, i + 1,
            es \o (IF Truthy(found) THEN << <<found, node.id, "CONTAINS_REQUIREMENT">> >> ELSE <<>>))

\* The clause ids and document ids a lookup can be asked for.
QueriedClauseIds ==
  { all_chunks[i].chunk_id : i \in 1..Len(all_chunks) }
    \cup { all_chunks[i].parent_id : i \in 1..Len(all_chunks) }
QueriedDocumentIds == { all_chunks[i].document_id : i \in 1..Len(all_chunks) } \cup DocumentIds

\* C25: _find_clause_node_by_id is equivalent to the per-document index
\* populated as each chunk's Clause node is created: on every registry and
\* every (clause_id, document_id) query both return the same node id or both
\* miss, and build_structural_edges emits the same edges under either.
C25_ScanEquivalentToIndex ==
  LET index == ClauseIndex(all_chunks, 1, <<>>)
  IN /\ pc \in {"clauses", "requirements"} =>
          \A c \in QueriedClauseIds : \A d \in QueriedDocumentIds :
            _find_clause_node_by_id(nodes, c, d) = IndexLookup(index, c, d)
     /\ pc = "structural" =>
          edges = IndexedRequirementEdges(index, nodes, 1, IndexedClauseEdges(index, nodes, 1, <<>>))

\* C26: builds can be repeated without cross-contamination: a second
\* build_graph on the same builder with the same input leaves the chunk
\* list, the node registry and the edge sequence as a first call leaves them
\* (the edge sequence up to the order of the REFERENCES edges of one clause).
C26_SecondBuildEqualsFirst ==
  Builds = 2 =>
    \A l \in ListingOrders(chunks_dir) :
      LET first == FreshLoad(l)
          ns == FreshNodes(l)
      IN /\ all_chunks = first.all_chunks
         /\ AfterNodeCreation => nodes = ns
         /\ pc = "structural" =>
              edges = RequirementEdgeLoop(ns, 1, ClauseEdgeLoop(ns, 1, <<>>))
         /\ pc = "references" =>
              \E es \in FreshEdges(ns, first.documents) : SameUpToReferenceOrder(es, edges)
         /\ pc = "built" =>
              \E es \in FreshEdges(ns, first.documents) :
                SameUpToReferenceOrder(es \o FreshSimilarities(ns, similarity_threshold, max_links),
                                       edges)

\* The nodes registered under an id (at most one).
NodesAt(id) == { nodes[i] : i \in { j \in 1..Len(nodes) : nodes[j].id = id } }

\* C27: every edge is well-typed with respect to the node registry:
\* HAS_CLAUSE goes from a Standard node to a Clause node, HAS_SUBCLAUSE from
\* a Clause to a Clause of the same document whose clause_id is the child's
\* parent_id, CONTAINS_REQUIREMENT from a Clause to a Requirement, REFERENCES
\* from a Clause to a Standard node, SIMILAR_TO from a Clause to a Clause.
C27_EdgesWellTyped ==
  \A k \in 1..Len(edges) :
    \E s \in NodesAt(edges[k][1]) : \E t \in NodesAt(edges[k][2]) :
      CASE edges[k][3] = "HAS_CLAUSE" -> s.type = "Standard" /\ t.type = "Clause"
        [] edges[k][3] = "HAS_SUBCLAUSE" ->
             /\ s.type = "Clause" /\ t.type = "Clause"
             /\ s.document_id = t.document_id /\ s.clause_id = t.parent_id
        [] edges[k][3] = "CONTAINS_REQUIREMENT" -> s.type = "Clause" /\ t.type = "Requirement"
        [] edges[k][3] = "REFERENCES" -> s.type = "Clause" /\ t.type = "Standard"
        [] edges[k][3] = "SIMILAR_TO" -> s.type = "Clause" /\ t.type = "Clause"
        [] OTHER -> FALSE

\* The (document_id, chunk_id) pair of the m-th loaded chunk, and the chunks
\* that carry the pair of the m-th.
PairOf(m) == <<all_chunks[m].document_id, all_chunks[m].chunk_id>>
SamePair(m) == { k \in 1..Len(all_chunks) : PairOf(k) = PairOf(m) }
RepeatedPairs == { m \in 1..Len(all_chunks) : Cardinality(SamePair(m)) > 1 }

\* C28: when two loaded chunks share a (document_id, chunk_id) pair,
\* build_clause_nodes keeps exactly one Clause node for the pair, with the
\* fields of the chunk that comes last in load order, at the registry
\* position the first of them took; the Clause nodes are then fewer than the
\* loaded chunks, which the export's chunk_count still counts in full.
C28_RepeatedPairLastWins ==
  /\ pc = "clauses" =>
       \A m \in RepeatedPairs :
         LET first == CHOOSE k \in SamePair(m) : \A n \in SamePair(m) : k <= n
             last == CHOOSE k \in SamePair(m) : \A n \in SamePair(m) : k >= n
             held == { k \in NodeIndices("Clause") :
                         <<nodes[k].document_id, nodes[k].clause_id>> = PairOf(m) }
         IN /\ Cardinality(held) = 1
            /\ \A k \in held :
                 /\ nodes[k] = ClauseNode(all_chunks[last], last)
                 /\ k = Len(documents) + Cardinality({ PairOf(n) : n \in 1..first })
            /\ Cardinality(NodeIndices("Clause")) < Len(all_chunks)
  /\ (pc \in {"exported", "done"} /\ RepeatedPairs # {}) =>
       LET g == ExportedGraph
       IN /\ g.metadata.chunk_count = Len(all_chunks)
          /\ Cardinality({ k \in 1..Len(g.nodes) : g.nodes[k].type = "Clause" })
               < g.metadata.chunk_count

\* A sequence of names without repetition in lexical order.
LexicallyOrdered(names) == \A i, j \in 1..Len(names) : i < j => StrLess(names[i], names[j])

\* C29: on a successful build there is exactly one Standard node per input
\* subdirectory, keyed STANDARD_<directory name>, also for a subdirectory
\* from which no chunk was loaded; the Standard nodes and the exported
\* documents list follow the lexical order of the subdirectory names,
\* whatever document_id fields the chunk records hold.
C29_OneStandardPerDirectory ==
  LET dirs == { e.name : e \in DocumentDirs }
  IN /\ AfterNodeCreation =>
          LET standards == SelectSeq(nodes, LAMBDA n : n.type = "Standard")
          IN /\ Len(standards) = Cardinality(dirs)
             /\ \A d \in dirs : \E i \in 1..Len(standards) :
                  standards[i].id = "STANDARD_" \o d /\ standards[i].document_id = d
             /\ LexicallyOrdered([i \in 1..Len(standards) |-> standards[i].document_id])
     /\ pc \in {"exported", "done"} =>
          /\ Range(ExportedGraph.documents) = dirs
          /\ LexicallyOrdered(ExportedGraph.documents)

\* Node b is reached from node a along at most n HAS_SUBCLAUSE edges (n > 0).
RECURSIVE Descends(_, _, _)
Descends(a, b, n) ==
  /\ n > 0
  /\ \E k \in EdgesOfKind("HAS_SUBCLAUSE") :
       /\ edges[k][1] = a
       /\ (edges[k][2] = b \/ Descends(edges[k][2], b, n - 1))

\* C30: the HAS_SUBCLAUSE edges never contain a self-loop or a cycle: no
\* Clause is its own parent or its own ancestor, and with at most one
\* incoming HAS_CLAUSE or HAS_SUBCLAUSE edge per Clause the two relationships
\* form a forest under the Standard nodes.
C30_SubclauseEdgesAcyclic ==
  /\ \A k \in EdgesOfKind("HAS_SUBCLAUSE") : edges[k][1] # edges[k][2]
  /\ \A n \in ClauseSet : ~Descends(n.id, n.id, Len(nodes))
  /\ \A n \in ClauseSet :
       Cardinality(EdgesInto(n.id, "HAS_SUBCLAUSE") \cup EdgesInto(n.id, "HAS_CLAUSE")) <= 1

=============================================================================
